---- MODULE Spec2Model ----
(***************************************************************************)
(* The flash-write command handlers of the flasher stub                    *)
(* (flasher_stub/stub_write_flash.c): handle_flash_begin,                  *)
(* handle_flash_deflated_begin, start_next_erase, handle_flash_data,       *)
(* handle_flash_deflated_data and handle_flash_end, run one call at a time *)
(* by the command dispatcher against an SPI flash device and the tinfl     *)
(* streaming decompressor.                                                 *)
(*                                                                         *)
(* uint32_t values are held as the integer of -2^31 .. 2^31-1 congruent to *)
(* them modulo 2^32 (their two's-complement reading): TLC's integers are   *)
(* 32 bits wide.  A negative integer n therefore stands for the uint32_t   *)
(* value 2^32 + n, additions and subtractions are the plain ones, and      *)
(* unsigned comparison and division are the operators U32Gt and U32Div.    *)
(***************************************************************************)
EXTENDS Integers, Sequences, FiniteSets, TLC

VARIABLES
  fs,          \* the static struct fs (lines 25-43), without the inflator
  inflator,    \* fs.inflator: the decoder's position in the stream it is fed
  next_out,    \* static next_out - out_buf of handle_flash_deflated_data
  pc,          \* where the running handler is: "idle" between calls
  caller,      \* who called handle_flash_data: "raw" (dispatcher) or "deflate"
  length,      \* handle_flash_data: parameter length
  last_sector, \* handle_flash_data: local last_sector
  d_length,    \* handle_flash_deflated_data: parameter length (rest of the chunk)
  status,      \* handle_flash_deflated_data: local status
  ret,         \* the last value a handler returned to the dispatcher
  stream,      \* the compressed image the host is sending (deflate sessions)
  sess,        \* history: the arguments of the last begin and what was sent since
  erased,      \* history: flash sectors erased since the last begin
  erased_twice,\* history: some sector was erased again since the last begin
  writes       \* history: device writes <<addr, len, stale>> since the last begin

vars == <<fs, inflator, next_out, pc, caller, length, last_sector, d_length,
          status, ret, stream, sess, erased, erased_twice, writes>>

-----------------------------------------------------------------------------
(* Program constants *)

FLASH_SECTOR_SIZE == 4096
SECTORS_PER_BLOCK == 8
OUT_BUF_SIZE == 32768
ADDR_MASK == 2^24 - 1

TINFL_STATUS_FAILED == -1
TINFL_STATUS_DONE == 0
TINFL_STATUS_NEEDS_MORE_INPUT == 1
TINFL_STATUS_HAS_MORE_OUTPUT == 2

ESP_OK == "ESP_OK"
ESP_FAILED_SPI_OP == "ESP_FAILED_SPI_OP"
ESP_FAILED_SPI_UNLOCK == "ESP_FAILED_SPI_UNLOCK"
ESP_NOT_IN_FLASH_MODE == "ESP_NOT_IN_FLASH_MODE"
ESP_INFLATE_ERROR == "ESP_INFLATE_ERROR"
ESP_NOT_ENOUGH_DATA == "ESP_NOT_ENOUGH_DATA"
ESP_TOO_MUCH_DATA == "ESP_TOO_MUCH_DATA"

-----------------------------------------------------------------------------
(* Bounds of the model *)

\* begin / begin_deflated calls in one run
MaxSessions == 2
\* data / deflated_data calls in one run
MaxCalls == 3
\* device writes that fail in one run
MaxFaults == 1

\* Flash offsets given to begin and begin_deflated: block-aligned, unaligned, and sector 7
\* (sector-aligned, one sector before a block boundary).
Offsets == {0, 100, 28672}
\* Sizes given to begin as total_size.
Sizes == {0, 4096, 10000}
\* Lengths of raw data chunks.
DataLens == {1000, 4096, 9000}
\* Lengths of compressed chunks.
ChunkLens == {1, 3, 6, 10}

\* The compressed images the host may send.  out[i] is the number of
\* decompressed bytes the decoder can have produced once it has consumed
\* the first i compressed bytes (two header bytes produce nothing, the last
\* four are the checksum); err is the index of the first corrupt byte, 0
\* when the stream is valid.
Streams ==
  { [out |-> <<0, 0, 50, 100, 150, 200, 200, 200, 200, 200>>, err |-> 0],
    [out |-> <<0, 0, 8192, 16384, 24576, 32768, 32768, 32768, 32768, 32768>>, err |-> 0],
    [out |-> <<0, 0, 10000, 20000, 30000, 40000, 40000, 40000, 40000, 40000>>, err |-> 0],
    [out |-> <<0, 0, 50, 100, 150, 200, 200, 200, 200, 200>>, err |-> 5] }

NoStream == [out |-> <<>>, err |-> 0]

\* The decompressed length of image s.
RealSize(s) == s.out[Len(s.out)]

\* Sizes given to begin_deflated as uncompressed_size for image s: the real
\* one, one that is too large and one that is too small.
UncompressedSizes(s) == {RealSize(s), RealSize(s) + 100, RealSize(s) - 100}

\* Sizes given to begin_deflated as compressed_size for image s: the real
\* one and, for a valid image that fits the output buffer, one that is too
\* small.
CompressedSizes(s) ==
  IF s.err = 0 /\ RealSize(s) < OUT_BUF_SIZE THEN {Len(s.out), 3} ELSE {Len(s.out)}

-----------------------------------------------------------------------------
(* uint32_t arithmetic *)

\* a > b on uint32_t
U32Gt(a, b) == IF (a < 0) = (b < 0) THEN a > b ELSE a < 0

\* a / d on uint32_t, for d a power of two that is at most 2^16
U32Div(a, d) == IF a >= 0 THEN a \div d ELSE (a \div d) + (65536 \div d) * 65536

-----------------------------------------------------------------------------
(* The initial state: zero-initialised statics *)

\* The fields of sess: n counts the begins of the run, mode is "raw" after
\* handle_flash_begin and "deflate" after handle_flash_deflated_begin,
\* offset, total and csize are the arguments of that begin, calls and
\* faults count the data calls and failed writes of the run, faulted says
\* that a write failed since the begin, sent sums the lengths of the raw
\* data calls since the begin, fed is the number of bytes of the image given
\* to deflated_data since the begin, and stale is the number of bytes in
\* out_buf that an earlier session had left there at the begin.

Init ==
  /\ fs = [in_flash_mode |-> FALSE, next_write |-> 0, next_erase_sector |-> 0,
           remaining |-> 0, remaining_erase_sector |-> 0, last_error |-> ESP_OK,
           remaining_compressed |-> 0]
  /\ inflator = [ipos |-> 0, opos |-> 0, st |-> "run"]
  /\ next_out = 0
  /\ pc = "idle"
  /\ caller = "none"
  /\ length = 0
  /\ last_sector = 0
  /\ d_length = 0
  /\ status = TINFL_STATUS_NEEDS_MORE_INPUT
  /\ ret = [op |-> "none", val |-> ESP_OK]
  /\ stream = NoStream
  /\ sess = [n |-> 0, mode |-> "none", offset |-> 0, total |-> 0, csize |-> 0,
             calls |-> 0, faults |-> 0, faulted |-> FALSE, sent |-> 0,
             fed |-> 0, stale |-> 0]
  /\ erased = {}
  /\ erased_twice = FALSE
  /\ writes = <<>>

-----------------------------------------------------------------------------
(* is_in_flash_mode, get_flash_error: the dispatcher's queries *)

is_in_flash_mode == fs.in_flash_mode

get_flash_error == fs.last_error

-----------------------------------------------------------------------------
(* handle_flash_begin, handle_flash_deflated_begin *)

\* (total_size + FLASH_SECTOR_SIZE - 1) / FLASH_SECTOR_SIZE, line 60
SectorsToErase(total_size) ==
  U32Div(total_size + FLASH_SECTOR_SIZE - 1, FLASH_SECTOR_SIZE)

\* The assignments of lines 56-61.
FlashBeginState(f, total_size, offset) ==
  [f EXCEPT !.in_flash_mode = TRUE,
            !.next_write = offset,
            !.next_erase_sector = U32Div(offset, FLASH_SECTOR_SIZE),
            !.remaining = total_size,
            !.remaining_erase_sector = SectorsToErase(total_size),
            !.last_error = ESP_OK]

\* What handle_flash_begin returns: SPIUnlock() != 0 is unlock_fail.
FlashBeginResult(unlock_fail) ==
  IF unlock_fail THEN ESP_FAILED_SPI_UNLOCK ELSE ESP_OK

\* A begin starts the history of a new session.
NewSession(mode, total_size, compressed_size, offset) ==
  /\ sess' = [n |-> sess.n + 1, mode |-> mode, offset |-> offset,
              total |-> total_size, csize |-> compressed_size,
              calls |-> sess.calls, faults |-> sess.faults, faulted |-> FALSE,
              sent |-> 0, fed |-> 0, stale |-> next_out]
  /\ erased' = {}
  /\ erased_twice' = FALSE
  /\ writes' = <<>>

handle_flash_begin(total_size, offset, unlock_fail) ==
  /\ pc = "idle"
  /\ sess.n < MaxSessions
  /\ sess.calls < MaxCalls
  /\ fs' = FlashBeginState(fs, total_size, offset)
  /\ ret' = [op |-> "begin", val |-> FlashBeginResult(unlock_fail)]
  /\ NewSession("raw", total_size, 0, offset)
  /\ stream' = NoStream
  /\ UNCHANGED <<inflator, next_out, pc, caller, length, last_sector, d_length,
                 status>>

\* s is the image the host goes on to send.
handle_flash_deflated_begin(uncompressed_size, compressed_size, offset, unlock_fail, s) ==
  /\ pc = "idle"
  /\ sess.n < MaxSessions
  /\ sess.calls < MaxCalls
  /\ fs' = [FlashBeginState(fs, uncompressed_size, offset)
              EXCEPT !.remaining_compressed = compressed_size]
  /\ inflator' = [ipos |-> 0, opos |-> 0, st |-> "run"]
  /\ ret' = [op |-> "begin_deflated", val |-> FlashBeginResult(unlock_fail)]
  /\ NewSession("deflate", uncompressed_size, compressed_size, offset)
  /\ stream' = s
  /\ UNCHANGED <<next_out, pc, caller, length, last_sector, d_length, status>>

-----------------------------------------------------------------------------
(* start_next_erase *)

\* The sectors the device erases for one command: n sectors from the one
\* that holds addr & 0xffffff.
DeviceSectors(sector, n) ==
  LET addr == (sector * FLASH_SECTOR_SIZE) % (ADDR_MASK + 1)
  IN  {(addr \div FLASH_SECTOR_SIZE) + k : k \in 0 .. n - 1}

\* IsBlockErase without the test of line 114.
IsBlockEraseRemainingOnly(f) ==
  f.remaining_erase_sector >= SECTORS_PER_BLOCK

\* IsBlockErase without the test of line 113.
IsBlockEraseAlignedOnly(f) ==
  f.next_erase_sector % SECTORS_PER_BLOCK = 0

\* Lines 113-114: a block erase when that many sectors remain and the next
\* sector is block-aligned.
IsBlockErase(f) ==
  /\ f.remaining_erase_sector >= SECTORS_PER_BLOCK
  /\ f.next_erase_sector % SECTORS_PER_BLOCK = 0

\* One call of start_next_erase on state f, the device answering the status
\* poll with ready: the new state and the sectors the issued command erases.
start_next_erase(f, ready) ==
  IF f.remaining_erase_sector = 0 THEN [fs |-> f, cmd |-> {}]
  ELSE IF ~ready THEN [fs |-> f, cmd |-> {}]
  ELSE LET sectors_to_erase == IF IsBlockErase(f) THEN SECTORS_PER_BLOCK ELSE 1
       IN  [fs |-> [f EXCEPT !.remaining_erase_sector = @ - sectors_to_erase,
                             !.next_erase_sector = @ + sectors_to_erase],
            cmd |-> DeviceSectors(f.next_erase_sector, sectors_to_erase)]

\* The history of erases after a command that erases cmd.
RecordErase(cmd) ==
  /\ erased' = erased \cup cmd
  /\ erased_twice' = (erased_twice \/ (erased \cap cmd) # {})

-----------------------------------------------------------------------------
(* handle_flash_data *)

\* LastSector rounded down instead of up.
LastSectorRoundedDown(f, len) ==
  U32Div(f.next_write + len, FLASH_SECTOR_SIZE)

\* Line 138: the sector one past the end of the write, as an int.
LastSector(f, len) ==
  U32Div(f.next_write + len + FLASH_SECTOR_SIZE - 1, FLASH_SECTOR_SIZE)

\* Line 139: the guard of the erase catch-up loop.
EraseBehind == fs.next_erase_sector < last_sector

\* The dispatcher calls handle_flash_data(buf, len) in a raw session: it
\* serves data commands only while is_in_flash_mode().
handle_flash_data(len) ==
  /\ pc = "idle"
  /\ is_in_flash_mode
  /\ sess.mode = "raw"
  /\ sess.calls < MaxCalls
  /\ pc' = "data_erase"
  /\ caller' = "raw"
  /\ length' = len
  /\ last_sector' = LastSector(fs, len)
  /\ sess' = [sess EXCEPT !.calls = @ + 1, !.sent = @ + len]
  /\ ret' = [op |-> "data", val |-> ESP_OK]
  /\ UNCHANGED <<fs, inflator, next_out, d_length, status, stream, erased,
                 erased_twice, writes>>

\* One turn of the loop of lines 139-141.
DataEraseStep(ready) ==
  /\ pc = "data_erase"
  /\ EraseBehind
  /\ LET e == start_next_erase(fs, ready)
     IN  /\ fs' = e.fs
         /\ RecordErase(e.cmd)
  /\ UNCHANGED <<inflator, next_out, pc, caller, length, last_sector, d_length,
                 status, ret, stream, sess, writes>>

\* WriteState that leaves the cursors where they are when SPIWrite fails.
WriteStateRollback(f, len, fail) ==
  IF fail THEN [f EXCEPT !.last_error = ESP_FAILED_SPI_OP]
  ELSE [f EXCEPT !.next_write = @ + len, !.remaining = @ - len]

\* WriteState that stores the result of every SPIWrite, so that a write
\* that succeeds clears the error.
WriteStateLastResult(f, len, fail) ==
  [f EXCEPT !.last_error = IF fail THEN ESP_FAILED_SPI_OP ELSE ESP_OK,
            !.next_write = @ + len,
            !.remaining = @ - len]

\* Lines 144-148 on state f: SPIWrite fails or not, the cursors move.
WriteState(f, len, fail) ==
  [f EXCEPT !.last_error = IF fail THEN ESP_FAILED_SPI_OP ELSE @,
            !.next_write = @ + len,
            !.remaining = @ - len]

\* The bytes of an earlier session in a write: the first flush of
\* handle_flash_deflated_data after a begin writes what next_out had left
\* in out_buf (stale of them), line 181 then empties the buffer.
StaleInWrite(who, ws, stale) ==
  IF who = "deflate" /\ ws = <<>> THEN stale ELSE 0

\* DataWrite without the reset of next_out of line 181.
DataWriteKeepsBuffer(fail) ==
  /\ pc = "data_erase"
  /\ ~EraseBehind
  /\ fail => sess.faults < MaxFaults
  /\ fs' = WriteState(fs, length, fail)
  /\ writes' = Append(writes, <<fs.next_write, length,
                                StaleInWrite(caller, writes, sess.stale)>>)
  /\ sess' = [sess EXCEPT !.faults = IF fail THEN @ + 1 ELSE @,
                          !.faulted = @ \/ fail]
  /\ length' = 0
  /\ last_sector' = 0
  /\ pc' = IF caller = "deflate" THEN "defl_loop" ELSE "idle"
  /\ caller' = "none"
  /\ UNCHANGED <<next_out, inflator, d_length, status, ret, stream, erased,
                 erased_twice>>

\* The loop is left, the write is issued and handle_flash_data returns: to
\* the dispatcher, or to line 181 of handle_flash_deflated_data.
DataWrite(fail) ==
  /\ pc = "data_erase"
  /\ ~EraseBehind
  /\ fail => sess.faults < MaxFaults
  /\ fs' = WriteState(fs, length, fail)
  /\ writes' = Append(writes, <<fs.next_write, length,
                                StaleInWrite(caller, writes, sess.stale)>>)
  /\ sess' = [sess EXCEPT !.faults = IF fail THEN @ + 1 ELSE @,
                          !.faulted = @ \/ fail]
  /\ length' = 0
  /\ last_sector' = 0
  /\ IF caller = "deflate"
        THEN /\ pc' = "defl_loop"
             /\ next_out' = 0
        ELSE /\ pc' = "idle"
             /\ UNCHANGED next_out
  /\ caller' = "none"
  /\ UNCHANGED <<inflator, d_length, status, ret, stream, erased, erased_twice>>

-----------------------------------------------------------------------------
(* tinfl_decompress: the streaming decoder, on the image the host sends *)

Min(a, b) == IF a <= b THEN a ELSE b

Least(S) == CHOOSE x \in S : \A y \in S : x <= y

\* Decompressed bytes available once i compressed bytes of s are consumed;
\* nothing more is produced from the corrupt byte on.
OutAt(s, i) ==
  LET j == IF s.err > 0 /\ i >= s.err THEN s.err - 1 ELSE i
  IN  IF j = 0 THEN 0 ELSE s.out[j]

\* One call of tinfl_decompress with n input bytes (the next n bytes of s),
\* room for m output bytes, and TINFL_FLAG_HAS_MORE_INPUT set or not.
\* A finished or failed decoder returns the same status forever.  It stops
\* with HAS_MORE_OUTPUT at the input byte whose output does not fit, fails
\* at a corrupt byte, is DONE at the end of the stream, and at the end of
\* the input NEEDS_MORE_INPUT when told that more follows and fails when
\* told that none does (a starved decoder cannot finish the stream).
tinfl_decompress(inf, s, n, m, more) ==
  IF inf.st # "run"
    THEN [inf |-> inf, in_bytes |-> 0, out_bytes |-> 0,
          status |-> IF inf.st = "done" THEN TINFL_STATUS_DONE
                                        ELSE TINFL_STATUS_FAILED]
    ELSE LET end == Min(inf.ipos + n, Len(s.out))
             lim == IF s.err > inf.ipos /\ s.err <= end THEN s.err ELSE end
             full == OutAt(s, lim) - inf.opos > m
             stop == IF full
                       THEN Least({j \in inf.ipos .. lim : OutAt(s, j) - inf.opos > m})
                       ELSE lim
             produced == IF full THEN m ELSE OutAt(s, lim) - inf.opos
             st == IF full THEN TINFL_STATUS_HAS_MORE_OUTPUT
                   ELSE IF lim = s.err THEN TINFL_STATUS_FAILED
                   ELSE IF lim = Len(s.out) THEN TINFL_STATUS_DONE
                   ELSE IF more THEN TINFL_STATUS_NEEDS_MORE_INPUT
                   ELSE TINFL_STATUS_FAILED
         IN  [inf |-> [ipos |-> stop, opos |-> inf.opos + produced,
                       st |-> IF st = TINFL_STATUS_DONE THEN "done"
                              ELSE IF st < TINFL_STATUS_DONE THEN "fail"
                              ELSE "run"],
              in_bytes |-> stop - inf.ipos, out_bytes |-> produced, status |-> st]

-----------------------------------------------------------------------------
(* handle_flash_deflated_data *)

\* The dispatcher calls handle_flash_deflated_data(buf, len) in a deflate
\* session with the next len bytes of the image.
handle_flash_deflated_data(len) ==
  /\ pc = "idle"
  /\ is_in_flash_mode
  /\ sess.mode = "deflate"
  /\ sess.calls < MaxCalls
  /\ sess.fed + len <= Len(stream.out)
  /\ pc' = "defl_loop"
  /\ d_length' = len
  /\ status' = TINFL_STATUS_NEEDS_MORE_INPUT
  /\ sess' = [sess EXCEPT !.calls = @ + 1, !.fed = @ + len]
  /\ ret' = [op |-> "deflated_data", val |-> ESP_OK]
  /\ UNCHANGED <<fs, inflator, next_out, caller, length, last_sector, stream,
                 erased, erased_twice, writes>>

\* Line 156: the guard of the decode loop.
DeflateLoopGuard ==
  /\ d_length > 0
  /\ fs.remaining # 0
  /\ status > TINFL_STATUS_DONE

\* FlushNeeded without the flush on a decoder error.
FlushNeededFullOrDone(st, bytes_in_out_buf) ==
  st = TINFL_STATUS_DONE \/ bytes_in_out_buf = OUT_BUF_SIZE

\* FlushNeeded that flushes after every call of the decoder.
FlushNeededEveryTurn(st, bytes_in_out_buf) == TRUE

\* Line 178: the output buffer is flushed when the decoder is done or has
\* failed, or the buffer is full.
FlushNeeded(st, bytes_in_out_buf) ==
  st <= TINFL_STATUS_DONE \/ bytes_in_out_buf = OUT_BUF_SIZE

\* One turn of the loop of lines 156-183, up to the call of
\* handle_flash_data at line 180 when the buffer is flushed.
DeflateStep(ready) ==
  /\ pc = "defl_loop"
  /\ DeflateLoopGuard
  /\ LET out_bytes == OUT_BUF_SIZE - next_out
         more == U32Gt(fs.remaining_compressed, d_length)
         e == start_next_erase(fs, ready)
         r == tinfl_decompress(inflator, stream, d_length, out_bytes, more)
         f == [e.fs EXCEPT !.remaining_compressed = @ - r.in_bytes]
         bytes_in_out_buf == next_out + r.out_bytes
     IN  /\ RecordErase(e.cmd)
         /\ inflator' = r.inf
         /\ fs' = f
         /\ d_length' = d_length - r.in_bytes
         /\ status' = r.status
         /\ next_out' = bytes_in_out_buf
         /\ IF FlushNeeded(r.status, bytes_in_out_buf)
               THEN /\ pc' = "data_erase"
                    /\ caller' = "deflate"
                    /\ length' = bytes_in_out_buf
                    /\ last_sector' = LastSector(f, bytes_in_out_buf)
               ELSE UNCHANGED <<pc, caller, length, last_sector>>
  /\ UNCHANGED <<ret, stream, sess, writes>>

\* Lines 185-195 on state f: the error the call leaves in last_error.
ResolveError(f, st) ==
  LET e1 == IF st < TINFL_STATUS_DONE THEN ESP_INFLATE_ERROR ELSE f.last_error
      e2 == IF st = TINFL_STATUS_DONE /\ f.remaining # 0
              THEN ESP_NOT_ENOUGH_DATA ELSE e1
  IN  IF st # TINFL_STATUS_DONE /\ f.remaining = 0
        THEN ESP_TOO_MUCH_DATA ELSE e2

\* The loop is left; lines 185-195 and the return.
DeflateReturn ==
  /\ pc = "defl_loop"
  /\ ~DeflateLoopGuard
  /\ fs' = [fs EXCEPT !.last_error = ResolveError(fs, status)]
  /\ pc' = "idle"
  /\ d_length' = 0
  /\ status' = TINFL_STATUS_NEEDS_MORE_INPUT
  /\ UNCHANGED <<inflator, next_out, caller, length, last_sector, ret, stream,
                 sess, erased, erased_twice, writes>>

-----------------------------------------------------------------------------
(* handle_flash_end *)

\* FlashEndResult without the test of line 204.
FlashEndResultUnchecked(f) ==
  IF ~f.in_flash_mode THEN ESP_NOT_IN_FLASH_MODE ELSE f.last_error

\* What handle_flash_end returns in state f.
FlashEndResult(f) ==
  IF ~f.in_flash_mode THEN ESP_NOT_IN_FLASH_MODE
  ELSE IF f.remaining # 0 THEN ESP_NOT_ENOUGH_DATA
  ELSE f.last_error

\* FlashEndState that keeps a session with an error open.
FlashEndStateOnSuccess(f) ==
  IF f.in_flash_mode /\ f.remaining = 0 /\ f.last_error = ESP_OK
    THEN [f EXCEPT !.in_flash_mode = FALSE]
    ELSE f

\* The state handle_flash_end leaves: line 208 is reached past both returns.
FlashEndState(f) ==
  IF f.in_flash_mode /\ f.remaining = 0
    THEN [f EXCEPT !.in_flash_mode = FALSE]
    ELSE f

handle_flash_end ==
  /\ pc = "idle"
  /\ fs' = FlashEndState(fs)
  /\ ret' = [op |-> "end", val |-> FlashEndResult(fs)]
  /\ UNCHANGED <<inflator, next_out, pc, caller, length, last_sector, d_length,
                 status, stream, sess, erased, erased_twice, writes>>

-----------------------------------------------------------------------------
(* The dispatcher runs one handler at a time *)

Next ==
  \/ \E t \in Sizes, o \in Offsets, u \in BOOLEAN : handle_flash_begin(t, o, u)
  \/ \E s \in Streams, o \in Offsets, u \in BOOLEAN :
        \E t \in UncompressedSizes(s), c \in CompressedSizes(s) :
          handle_flash_deflated_begin(t, c, o, u, s)
  \/ \E len \in DataLens : handle_flash_data(len)
  \/ \E ready \in BOOLEAN : DataEraseStep(ready)
  \/ \E fail \in BOOLEAN : DataWrite(fail)
  \/ \E len \in ChunkLens : handle_flash_deflated_data(len)
  \/ \E ready \in BOOLEAN : DeflateStep(ready)
  \/ DeflateReturn
  \/ handle_flash_end

Spec == Init /\ [][Next]_vars

\* handle_flash_begin and handle_flash_deflated_begin as functions of their
\* arguments: the begins alone, with arguments from all over uint32_t
\* (a negative number n is the uint32_t value 2^32 + n).
BeginSizes == {0, 1, 4096, 4097, 1073741824, -4096, -4095, -1}
BeginOffsets == {0, 100, 4095, 28672, 16777216, -4096, -1}
BeginCompressedSizes == {0, 10, -1}

NextBegin ==
  \/ \E t \in BeginSizes, o \in BeginOffsets, u \in BOOLEAN :
        handle_flash_begin(t, o, u)
  \/ \E t \in BeginSizes, c \in BeginCompressedSizes, o \in BeginOffsets,
        u \in BOOLEAN :
        handle_flash_deflated_begin(t, c, o, u, NoStream)

SpecBegin == Init /\ [][NextBegin]_vars

-----------------------------------------------------------------------------
(* Properties *)

\* ceil(a / d) on natural numbers
CeilDiv(a, d) == (a + d - 1) \div d

\* The erase catch-up loop of handle_flash_data can never be left: sectors
\* are still missing and start_next_erase returns at line 107 without
\* changing anything, whatever the device answers.
EraseLoopStuck ==
  /\ pc = "data_erase"
  /\ fs.next_erase_sector < last_sector
  /\ fs.remaining_erase_sector = 0

\* The write of handle_flash_data is about to be issued (the loop of lines
\* 139-141 has been left).
WriteIssued == pc = "data_erase" /\ ~(fs.next_erase_sector < last_sector)

\* C1: no data or deflated_data call blocks for ever: after any begin, at
\* any offset, the erase catch-up loop of handle_flash_data is never in a
\* state it cannot leave (a device that is ready and commands that complete
\* let every other state of the loop make progress).  Stated for the raw
\* data calls that stay within total_size and for every deflated_data call.
C1_DataCallsReturn ==
  (sess.mode = "raw" => sess.sent <= sess.total) => ~EraseLoopStuck

\* C2: in a raw session whose data calls have lengths that sum to
\* total_size, with no device fault, the calls return, the session is at
\* write_cursor = offset + total_size with bytes_remaining = 0, and end()
\* returns OK.
C2_CompleteTransferEndsOK ==
  (sess.mode = "raw" /\ sess.sent = sess.total /\ ~sess.faulted /\ fs.in_flash_mode)
    => /\ ~EraseLoopStuck
       /\ pc = "idle" => /\ fs.next_write = sess.offset + sess.total
                         /\ fs.remaining = 0
                         /\ FlashEndResult(fs) = ESP_OK

\* C3: when handle_flash_data issues the device write of
\* [write_cursor, write_cursor + length), erase_cursor is at least
\* ceil((write_cursor + length) / sector_size), the erases of the session
\* started at floor(offset / sector_size) and reach erase_cursor without a
\* gap, and every sector the range touches has been erased.
C3_EraseBeforeWrite ==
  WriteIssued =>
    /\ fs.next_erase_sector >= CeilDiv(fs.next_write + length, FLASH_SECTOR_SIZE)
    /\ erased = (sess.offset \div FLASH_SECTOR_SIZE) .. (fs.next_erase_sector - 1)
    /\ \A k \in (fs.next_write \div FLASH_SECTOR_SIZE) ..
                  (CeilDiv(fs.next_write + length, FLASH_SECTOR_SIZE) - 1) :
         k \in erased

\* C3 witness: a full output buffer is about to be written by the deflate
\* flush over eight sectors erased before it.
C3_Witness ==
  /\ WriteIssued
  /\ caller = "deflate"
  /\ length = OUT_BUF_SIZE
  /\ Cardinality(erased) >= SECTORS_PER_BLOCK

\* C4: within one session no sector of index >=
\* ceil((offset + total_size) / sector_size) is erased and no sector is
\* erased twice.
C4_EraseWithinImageOnce ==
  /\ \A k \in erased : k < CeilDiv(sess.offset + sess.total, FLASH_SECTOR_SIZE)
  /\ ~erased_twice

\* C4 witness: a session has erased all its sectors, by a block erase and
\* single sector erases, starting off a block boundary.
C4_Witness ==
  /\ fs.in_flash_mode
  /\ sess.offset \div FLASH_SECTOR_SIZE = SECTORS_PER_BLOCK - 1
  /\ fs.remaining_erase_sector = 0
  /\ Cardinality(erased) > SECTORS_PER_BLOCK

\* C5 as claimed: every end() call made while a session is active leaves
\* active = false, whatever it returns.
C5_EndAlwaysCloses ==
  [][(handle_flash_end /\ fs.in_flash_mode) => ~fs'.in_flash_mode]_vars

\* C5 amended: an end() call made while a session is active and
\* bytes_remaining = 0 leaves active = false and returns last_error,
\* whatever it is; one made while bytes_remaining > 0 returns
\* not-enough-data and leaves the session active.  A closed session becomes
\* active again only by a begin.
C5_EndClosesWhenComplete ==
  [][/\ (handle_flash_end /\ fs.in_flash_mode) =>
          IF fs.remaining = 0
            THEN ~fs'.in_flash_mode /\ ret'.val = fs.last_error
            ELSE fs'.in_flash_mode /\ ret'.val = ESP_NOT_ENOUGH_DATA
     /\ (~fs.in_flash_mode /\ fs'.in_flash_mode) =>
          ret'.op \in {"begin", "begin_deflated"}]_vars

\* C5 witness: end() has closed a session in which a device write failed,
\* returning the write failure.
C5_Witness ==
  /\ ret.op = "end"
  /\ ret.val = ESP_FAILED_SPI_OP
  /\ sess.faulted
  /\ ~fs.in_flash_mode

\* C6: end() returns not-in-flash-mode when the session is not active,
\* not-enough-data when it is active with bytes_remaining > 0, and
\* last_error otherwise; so it returns OK only when the session is active,
\* bytes_remaining = 0 and last_error = OK.
C6_EndResult ==
  [][handle_flash_end =>
       /\ ~fs.in_flash_mode => ret'.val = ESP_NOT_IN_FLASH_MODE
       /\ (fs.in_flash_mode /\ U32Gt(fs.remaining, 0)) => ret'.val = ESP_NOT_ENOUGH_DATA
       /\ (fs.in_flash_mode /\ ~U32Gt(fs.remaining, 0)) => ret'.val = fs.last_error
       /\ ret'.val = ESP_OK =>
            (fs.in_flash_mode /\ fs.remaining = 0 /\ fs.last_error = ESP_OK)]_vars

\* C6 witness: end() has returned not-enough-data to a session that still
\* expects bytes after some were written.
C6_Witness ==
  /\ ret.op = "end"
  /\ ret.val = ESP_NOT_ENOUGH_DATA
  /\ fs.in_flash_mode
  /\ fs.remaining > 0
  /\ Len(writes) > 0

\* C7: while the session is active, write_cursor <= offset + total_size of
\* the last begin.
C7_WriteCursorBounded ==
  fs.in_flash_mode => ~U32Gt(fs.next_write, sess.offset + sess.total)

\* C8: in a deflate session whose declared uncompressed_size is smaller
\* than the decompressed length of the stream, last_error ends up as
\* too-much-data.  Stated for a valid stream, fed completely in any
\* chunking, with the right compressed_size and no device fault.
C8_DeclaredTooSmallIsTooMuchData ==
  (/\ pc = "idle"
   /\ fs.in_flash_mode
   /\ sess.mode = "deflate"
   /\ stream.err = 0
   /\ sess.csize = Len(stream.out)
   /\ sess.fed = Len(stream.out)
   /\ ~sess.faulted
   /\ sess.total < RealSize(stream))
    => fs.last_error = ESP_TOO_MUCH_DATA

\* C9: in a deflate session whose declared uncompressed_size is larger than
\* the decompressed length of the stream, once the decoder has reported
\* stream-complete last_error is not-enough-data and end() reports
\* not-enough-data.  Stated for a valid stream with the right
\* compressed_size and no device fault.
C9_DeclaredTooLargeIsNotEnoughData ==
  (/\ pc = "idle"
   /\ fs.in_flash_mode
   /\ sess.mode = "deflate"
   /\ inflator.st = "done"
   /\ stream.err = 0
   /\ sess.csize = Len(stream.out)
   /\ ~sess.faulted
   /\ sess.total > RealSize(stream))
    => /\ fs.last_error = ESP_NOT_ENOUGH_DATA
       /\ FlashEndResult(fs) = ESP_NOT_ENOUGH_DATA

\* C10: right after a begin or begin_deflated the session state that
\* influences later writes is that of a first session with the same
\* arguments: the cursors and counters, last_error and, for begin_deflated,
\* the decoder state, compressed_bytes_remaining and the fill cursor of the
\* output buffer.
C10_BeginResetsEverything ==
  /\ (pc = "idle" /\ ret.op \in {"begin", "begin_deflated"}) =>
       /\ fs.in_flash_mode
       /\ fs.next_write = sess.offset
       /\ fs.next_erase_sector = sess.offset \div FLASH_SECTOR_SIZE
       /\ fs.remaining = sess.total
       /\ fs.remaining_erase_sector = CeilDiv(sess.total, FLASH_SECTOR_SIZE)
       /\ fs.last_error = ESP_OK
  /\ (pc = "idle" /\ ret.op = "begin_deflated") =>
       /\ inflator = [ipos |-> 0, opos |-> 0, st |-> "run"]
       /\ fs.remaining_compressed = sess.csize
       /\ next_out = 0

\* A begin or begin_deflated step.
BeginStep == sess'.n = sess.n + 1

\* C11: last_error is sticky: a step that takes last_error from a non-OK
\* value to OK is a begin or begin_deflated; no step of a data,
\* deflated_data or end call does it.
C11_LastErrorSticky ==
  [][(fs.last_error # ESP_OK /\ fs'.last_error = ESP_OK) => BeginStep]_vars

\* C11 witness: end() has been served in a deflate session that holds a
\* decode error and still expects bytes; the error is still there.
C11_Witness ==
  /\ ret.op = "end"
  /\ pc = "idle"
  /\ fs.in_flash_mode
  /\ sess.mode = "deflate"
  /\ fs.last_error = ESP_INFLATE_ERROR

\* The loop of lines 139-141 run on state f against a device that is ready:
\* the state in which it is left, or in which it can no longer progress.
RECURSIVE EraseUpTo(_, _)
EraseUpTo(f, last) ==
  IF f.next_erase_sector < last /\ f.remaining_erase_sector # 0
    THEN EraseUpTo(start_next_erase(f, TRUE).fs, last)
    ELSE f

\* The device writes of one handle_flash_deflated_data call that is given
\* len bytes of image s in state f, decoder state inf, nout bytes in
\* out_buf of which stale are an earlier session's, after the writes ws:
\* the loop of lines 156-183 run to its end on a device that is ready.
RECURSIVE DeflatedDataWrites(_, _, _, _, _, _, _, _)
DeflatedDataWrites(f, inf, nout, len, st, s, stale, ws) ==
  IF ~(len > 0 /\ f.remaining # 0 /\ st > TINFL_STATUS_DONE) THEN ws
  ELSE LET more == U32Gt(f.remaining_compressed, len)
           r == tinfl_decompress(inf, s, len, OUT_BUF_SIZE - nout, more)
           f1 == [start_next_erase(f, TRUE).fs
                    EXCEPT !.remaining_compressed = @ - r.in_bytes]
           n == nout + r.out_bytes
           f2 == EraseUpTo(f1, LastSector(f1, n))
       IN  IF ~FlushNeeded(r.status, n)
             THEN DeflatedDataWrites(f1, r.inf, n, len - r.in_bytes, r.status,
                                     s, stale, ws)
           ELSE IF f2.next_erase_sector < LastSector(f1, n) THEN ws
           ELSE DeflatedDataWrites(WriteState(f2, n, FALSE), r.inf, 0,
                                   len - r.in_bytes, r.status, s, stale,
                                   Append(ws, <<f2.next_write, n,
                                                StaleInWrite("deflate", ws, stale)>>))

\* The device writes of the session when the whole image is given to one
\* handle_flash_deflated_data call right after the begin_deflated.
SingleChunkWrites ==
  DeflatedDataWrites([FlashBeginState(fs, sess.total, sess.offset)
                        EXCEPT !.remaining_compressed = sess.csize],
                     [ipos |-> 0, opos |-> 0, st |-> "run"], sess.stale,
                     Len(stream.out), TINFL_STATUS_NEEDS_MORE_INPUT, stream,
                     sess.stale, <<>>)

\* ws is a prefix of the sequence all.
IsPrefix(ws, all) ==
  Len(ws) <= Len(all) /\ \A i \in 1 .. Len(ws) : ws[i] = all[i]

\* A deflate session for a valid image with the declared uncompressed_size
\* equal to the decompressed length of the image.
ValidImageSession ==
  /\ sess.mode = "deflate"
  /\ stream.err = 0
  /\ sess.total = RealSize(stream)

\* C12 as claimed: in a deflate session for a valid image whose declared
\* uncompressed_size is its decompressed length, whatever the chunking
\* (1-byte chunks included), the device writes made so far are the first
\* writes of the single-chunk feed, and once the whole image has been given
\* they are exactly the writes of the single-chunk feed: same addresses,
\* lengths and content in the same order.  Stated for the sessions that
\* start with an empty out_buf.
C12_ChunkingSameWrites ==
  (ValidImageSession /\ sess.stale = 0) =>
    /\ IsPrefix(writes, SingleChunkWrites)
    /\ (pc = "idle" /\ sess.fed = Len(stream.out)) => writes = SingleChunkWrites

\* C12 amended: the same in every session, when the declared
\* compressed_size is the length of the stream as well.
C12_ChunkingSameWritesSized ==
  (ValidImageSession /\ sess.csize = Len(stream.out)) =>
    /\ IsPrefix(writes, SingleChunkWrites)
    /\ (pc = "idle" /\ sess.fed = Len(stream.out)) => writes = SingleChunkWrites

\* C12 witness: an image that takes two flushes has been given in the
\* three calls of the first session - chunks of 1, 3 and 6 bytes in some
\* order - and both writes were made.
C12_Witness ==
  /\ ValidImageSession
  /\ sess.csize = Len(stream.out)
  /\ pc = "idle"
  /\ sess.fed = Len(stream.out)
  /\ sess.n = 1
  /\ sess.calls = 3
  /\ Len(writes) = 2
  /\ ret.op = "deflated_data"

\* The step in which a handle_flash_data call of the dispatcher makes its
\* write and returns.
RawWriteStep == pc = "data_erase" /\ caller = "raw" /\ pc' = "idle"

\* C13: in a raw session, from the data call whose device write fails on,
\* last_error is the write failure; that call and every later data call
\* that makes its write still moves write_cursor forward by length and
\* bytes_remaining down by length; and end(), once bytes_remaining is 0,
\* closes the session and returns the write failure.
C13_RawWriteFailure ==
  /\ []((sess.mode = "raw" /\ sess.faulted) => fs.last_error = ESP_FAILED_SPI_OP)
  /\ [][/\ RawWriteStep =>
            /\ fs'.next_write = fs.next_write + length
            /\ fs'.remaining = fs.remaining - length
            /\ (sess'.faults > sess.faults) => fs'.last_error = ESP_FAILED_SPI_OP
        /\ (handle_flash_end /\ sess.mode = "raw" /\ sess.faulted
              /\ fs.in_flash_mode /\ fs.remaining = 0) =>
            /\ ~fs'.in_flash_mode
            /\ ret'.val = ESP_FAILED_SPI_OP]_vars

\* C13 witness: a raw session of two data calls, one of whose writes
\* failed, has written total_size bytes and was closed by end(), which
\* returned the write failure.
C13_Witness ==
  /\ sess.mode = "raw"
  /\ sess.faulted
  /\ Len(writes) = 2
  /\ fs.next_write = sess.offset + sess.total
  /\ fs.remaining = 0
  /\ ret = [op |-> "end", val |-> ESP_FAILED_SPI_OP]
  /\ ~fs.in_flash_mode

\* ceil(a / d) on uint32_t without overflow, for d a power of two
U32CeilDiv(a, d) == U32Div(a, d) + (IF a % d = 0 THEN 0 ELSE 1)

\* The state and the result C14 claims for a begin with arguments
\* total_size and offset whose unlock fails or not.
BeginPost(total_size, offset, unlock_fail) ==
  /\ fs'.next_write = offset
  /\ fs'.next_erase_sector = U32Div(offset, FLASH_SECTOR_SIZE)
  /\ fs'.remaining = total_size
  /\ fs'.remaining_erase_sector = U32CeilDiv(total_size, FLASH_SECTOR_SIZE)
  /\ fs'.last_error = ESP_OK
  /\ fs'.in_flash_mode
  /\ ret'.val = (IF unlock_fail THEN ESP_FAILED_SPI_UNLOCK ELSE ESP_OK)

\* C14: for all 32-bit total_size and offset, begin(total_size, offset)
\* leaves write_cursor = offset, erase_cursor = floor(offset / sector_size),
\* bytes_remaining = total_size, erase_units_remaining =
\* ceil(total_size / sector_size), last_error = OK and active = true,
\* whether the unlock fails or not, and returns the unlock failure exactly
\* when the unlock fails; begin_deflated does the same with the
\* uncompressed size and sets compressed_bytes_remaining = compressed_size.
C14_BeginPostState ==
  [][/\ \A t \in BeginSizes, o \in BeginOffsets, u \in BOOLEAN :
          handle_flash_begin(t, o, u) => BeginPost(t, o, u)
     /\ \A t \in BeginSizes, c \in BeginCompressedSizes, o \in BeginOffsets,
          u \in BOOLEAN :
          handle_flash_deflated_begin(t, c, o, u, NoStream) =>
            (BeginPost(t, o, u) /\ fs'.remaining_compressed = c)]_vars

\* C15: device write faults are first-write-wins: once a failed device
\* write has set last_error to the write failure, no later step of the
\* session, the error resolution that ends a deflated_data call included,
\* replaces it with another kind.  Stated for the sessions whose declared
\* sizes are right and that start with an empty out_buf.
C15_WriteFaultFirstWins ==
  [][(/\ fs.last_error = ESP_FAILED_SPI_OP
      /\ ~BeginStep
      /\ sess.mode = "deflate" =>
            /\ sess.total = RealSize(stream)
            /\ sess.csize = Len(stream.out)
            /\ sess.stale = 0)
       => fs'.last_error = ESP_FAILED_SPI_OP]_vars

\* One turn of the decode loop of handle_flash_deflated_data.
DecodeTurn == pc = "defl_loop" /\ DeflateLoopGuard /\ vars' # vars

\* The turn ends with the flush of out_buf through handle_flash_data.
FlushStarts == pc' = "data_erase"

\* C16 as claimed: a turn of the decode loop flushes the output buffer only
\* when the buffer has become full (32768 bytes) or the decoder has
\* reported stream-complete; bytes decoded before a decoder error are not
\* written by the call.  Stated for the sessions whose declared
\* compressed_size is right, where only a corrupt stream makes the decoder
\* fail.
C16_FlushOnlyFullOrDone ==
  [][(DecodeTurn /\ FlushStarts /\ sess.csize = Len(stream.out)) =>
       (status' = TINFL_STATUS_DONE \/ next_out' = OUT_BUF_SIZE)]_vars

\* C16 amended: a turn of the decode loop flushes the output buffer - all
\* the bytes in it, through the raw write path - exactly when the buffer
\* has become full, the decoder has reported stream-complete or the
\* decoder has reported an error; the bytes decoded before a decoder error
\* are written by the call in which the error is reported.
C16_FlushFullDoneOrFailed ==
  [][/\ DecodeTurn =>
          /\ FlushStarts <=> \/ next_out' = OUT_BUF_SIZE
                              \/ status' = TINFL_STATUS_DONE
                              \/ status' < TINFL_STATUS_DONE
          /\ FlushStarts => (caller' = "deflate" /\ length' = next_out')
     /\ (pc = "data_erase" /\ caller = "deflate" /\ pc' = "defl_loop") =>
          /\ writes' = Append(writes, <<fs.next_write, length,
                                        StaleInWrite(caller, writes, sess.stale)>>)
          /\ next_out' = 0]_vars

\* C16 witness: the decoder has failed in a session that started with an
\* empty out_buf, and the 100 bytes decoded before the corrupt byte are
\* the one write of the session.
C16_Witness ==
  /\ sess.mode = "deflate"
  /\ sess.stale = 0
  /\ inflator.st = "fail"
  /\ stream.err > 0
  /\ writes = <<<<sess.offset, 100, 0>>>>
  /\ pc = "defl_loop"

\* What C17 says of one call of start_next_erase made in state fs with the
\* device answering ready, the step leading to fs' and erased'.
EraseStepAsClaimed(ready) ==
  LET block == /\ fs.remaining_erase_sector >= SECTORS_PER_BLOCK
               /\ fs.next_erase_sector % SECTORS_PER_BLOCK = 0
      n == IF ~ready \/ fs.remaining_erase_sector = 0 THEN 0
           ELSE IF block THEN SECTORS_PER_BLOCK ELSE 1
  IN  /\ fs'.next_erase_sector = fs.next_erase_sector + n
      /\ fs'.remaining_erase_sector = fs.remaining_erase_sector - n
      /\ erased' = erased \cup
                     (fs.next_erase_sector .. (fs.next_erase_sector + n - 1))

\* C17: one step of the erase scheduler - a turn of the catch-up loop of
\* handle_flash_data or the opportunistic call of a decode turn - erases a
\* block of SECTORS_PER_BLOCK sectors exactly when erase_units_remaining >=
\* SECTORS_PER_BLOCK and erase_cursor is a multiple of SECTORS_PER_BLOCK,
\* and a single sector otherwise, adds that count to erase_cursor and
\* subtracts it from erase_units_remaining; when the device is not ready
\* or erase_units_remaining = 0 it erases nothing and leaves both counters
\* unchanged.
C17_EraseStep ==
  [][\A ready \in BOOLEAN :
       (DataEraseStep(ready) \/ DeflateStep(ready)) => EraseStepAsClaimed(ready)]_vars

\* C17 witness: from offset 0 the scheduler has erased one block and then
\* one single sector.
C17_Witness ==
  /\ fs.in_flash_mode
  /\ sess.offset = 0
  /\ erased = 0 .. SECTORS_PER_BLOCK
  /\ fs.next_erase_sector = SECTORS_PER_BLOCK + 1

\* The step in which the flush of out_buf returns to the decode loop.
FlushReturns == pc = "data_erase" /\ caller = "deflate" /\ pc' = "defl_loop"

\* C18: the fill cursor of the output buffer, next_out - out_buf, is
\* between 0 and 32768 in every reachable state, across chunks and
\* sessions, and it is 0 right after every flush.
C18_FillCursorBounded ==
  /\ [](0 <= next_out /\ next_out <= OUT_BUF_SIZE)
  /\ [][FlushReturns => next_out' = 0]_vars

\* C18 witness: a session that found bytes of an earlier one in out_buf has
\* filled the buffer and the flush has just emptied it.
C18_Witness ==
  /\ sess.mode = "deflate"
  /\ sess.stale > 0
  /\ pc = "defl_loop"
  /\ writes = <<<<sess.offset, OUT_BUF_SIZE, sess.stale>>>>
  /\ next_out = 0

\* C19: for a valid stream whose declared uncompressed_size and
\* compressed_size are right, given to deflated_data in any chunking with
\* no device fault, no call leaves too-much-data or not-enough-data in
\* last_error, and after the last chunk last_error is OK and end() returns
\* OK.  Stated for the sessions that start with an empty out_buf.
C19_ValidStreamEndsOK ==
  (/\ pc = "idle"
   /\ fs.in_flash_mode
   /\ ValidImageSession
   /\ sess.csize = Len(stream.out)
   /\ sess.stale = 0
   /\ ~sess.faulted)
    => /\ fs.last_error \notin {ESP_TOO_MUCH_DATA, ESP_NOT_ENOUGH_DATA}
       /\ sess.fed = Len(stream.out) =>
            /\ fs.last_error = ESP_OK
            /\ FlashEndResult(fs) = ESP_OK

\* C20: in every state after begin(total_size, offset),
\* erase_units_remaining >= 0 and erase_cursor + erase_units_remaining =
\* floor(offset / sector_size) + ceil(total_size / sector_size); and while
\* the session is active no step other than a begin decreases erase_cursor
\* or write_cursor.  (It holds for the sizes of Spec; line 60 breaks it for
\* the sizes of SpecBegin that are within 4095 of 2^32.)
C20_EraseAccounting ==
  /\ [](sess.n > 0 =>
          /\ ~U32Gt(0, fs.remaining_erase_sector)
          /\ fs.next_erase_sector + fs.remaining_erase_sector
               = U32Div(sess.offset, FLASH_SECTOR_SIZE)
                 + U32CeilDiv(sess.total, FLASH_SECTOR_SIZE))
  /\ [][(fs.in_flash_mode /\ ~BeginStep) =>
          /\ ~U32Gt(fs.next_erase_sector, fs'.next_erase_sector)
          /\ ~U32Gt(fs.next_write, fs'.next_write)]_vars

====
